---- MODULE Spec2Model ----
(***************************************************************************)
(* Model of src/main.py: the file-backed member registry (MemberDatabase)  *)
(* and the update handlers of the mention bot (cmd_start, cmd_scan,        *)
(* cmd_all, on_message, on_chat_member).                                   *)
(*                                                                         *)
(* A Python str is a sequence of one-character strings; a literal piece of *)
(* an f-string is kept as one element.  A Python dict is a sequence of     *)
(* entries in insertion order.  An Optional[str] of the Bot API is <<>>    *)
(* for None and <<s>> for the string s.  The non-ASCII literals of the     *)
(* messages are written in transliteration.                                *)
(***************************************************************************)
EXTENDS Integers, Sequences, FiniteSets, TLC

VARIABLES data, file, tasks, running, nEvents, nRestarts, lastAdd

vars == <<data, file, tasks, running, nEvents, nRestarts, lastAdd>>

-----------------------------------------------------------------------------
(* Bounds of the model *)

MaxEvents == 2
MaxRestarts == 1
MaxMembers == 31
MaxRows == 4

-----------------------------------------------------------------------------
(* Python built-ins used by the program *)

Min(a, b) == IF a < b THEN a ELSE b

DigitChars == <<"0", "1", "2", "3", "4", "5", "6", "7", "8", "9">>

RECURSIVE NatStr(_)
NatStr(n) == IF n < 10 THEN <<DigitChars[n + 1]>>
             ELSE NatStr(n \div 10) \o <<DigitChars[(n % 10) + 1]>>

\* str(n) of an int
Str(n) == IF n < 0 THEN <<"-">> \o NatStr(0 - n) ELSE NatStr(n)

\* the characters str.strip() removes: those for which str.isspace() holds. Listed are
\* the ASCII ones, "\t", "\n", "\v", "\f", "\r", the separators 0x1c to 0x1f and the
\* blank, and U+0085, U+00A0 and U+1680 (the control and separator characters are
\* written as the characters themselves). The remaining ones (U+2000 to U+200A,
\* U+2028, U+2029, U+202F, U+205F, U+3000) are characters the lexer of a module
\* rejects in a string, so no string of the model can hold one
Whitespace == {" ", "\t", "\n", "\r", "\f", "", "", "", "", "",
               "", " ", " "}

RECURSIVE LStrip(_)
LStrip(s) == IF s # <<>> /\ Head(s) \in Whitespace THEN LStrip(Tail(s)) ELSE s

RECURSIVE RStrip(_)
RStrip(s) == IF s # <<>> /\ s[Len(s)] \in Whitespace
             THEN RStrip(SubSeq(s, 1, Len(s) - 1)) ELSE s

\* s.strip()
Strip(s) == RStrip(LStrip(s))

\* index of the first occurrence of one of the characters cs in s, 0 if none
RECURSIVE FindFrom(_, _, _)
FindFrom(s, cs, i) == IF i > Len(s) THEN 0
                      ELSE IF s[i] \in cs THEN i
                      ELSE FindFrom(s, cs, i + 1)

\* s.split(sep) for a one-character separator
RECURSIVE Split(_, _)
Split(s, sep) ==
    LET i == FindFrom(s, {sep}, 1)
    IN  IF i = 0 THEN <<s>>
        ELSE <<SubSeq(s, 1, i - 1)>> \o Split(SubSeq(s, i + 1, Len(s)), sep)

\* sep.join(parts)
RECURSIVE Join(_, _)
Join(parts, sep) ==
    IF parts = <<>> THEN <<>>
    ELSE IF Len(parts) = 1 THEN parts[1]
    ELSE parts[1] \o sep \o Join(Tail(parts), sep)

\* text-mode read with universal newlines: "\r\n" and "\r" are read as "\n"
ReadText(s) ==
    LET marked == [i \in DOMAIN s |->
                     IF s[i] = "\r" THEN "\n"
                     ELSE IF s[i] = "\n" /\ i > 1 /\ s[i - 1] = "\r" THEN ""
                     ELSE s[i]]
        kept(c) == c # ""
    IN  SelectSeq(marked, kept)

\* "for line in f": the lines of the text, each with its terminator; the last one is
\* what follows the last terminator, when something does
Lines(s) ==
    LET ends == SelectSeq([i \in 1..Len(s) |-> i], LAMBDA i : s[i] = "\n")
        n == Len(ends)
        start(k) == IF k = 1 THEN 1 ELSE ends[k - 1] + 1
        last == IF n = 0 THEN 1 ELSE ends[n] + 1
    IN  [k \in 1..n |-> SubSeq(s, start(k), ends[k])]
            \o (IF last <= Len(s) THEN <<SubSeq(s, last, Len(s))>> ELSE <<>>)

\* range(start, stop, step) for step > 0
RECURSIVE Range(_, _, _)
Range(start, stop, step) ==
    IF start >= stop THEN <<>>
    ELSE <<start>> \o Range(start + step, stop, step)

\* xs[a:b] for 0 <= a <= b
Slice(xs, a, b) == SubSeq(xs, a + 1, Min(b, Len(xs)))

\* "x or ''" for an Optional[str]
OrEmpty(x) == IF x = <<>> THEN <<>> ELSE x[1]

-----------------------------------------------------------------------------
(* dict operations, insertion order kept *)

\* position of key k in the dict d (entries carry their key in field key), 0 if absent
KeyIndex(d, k) ==
    IF \E i \in DOMAIN d : d[i].key = k
    THEN CHOOSE i \in DOMAIN d : d[i].key = k
    ELSE 0

HasKey(d, k) == KeyIndex(d, k) # 0

Keys(d) == {d[i].key : i \in DOMAIN d}

\* d[k] = v
DictSet(d, k, v) ==
    IF HasKey(d, k) THEN [d EXCEPT ![KeyIndex(d, k)].val = v]
    ELSE Append(d, [key |-> k, val |-> v])

\* d.get(k, default)
DictGet(d, k, default) == IF HasKey(d, k) THEN d[KeyIndex(d, k)].val ELSE default

\* del d[k]
DictDel(d, k) ==
    LET i == KeyIndex(d, k)
    IN  SubSeq(d, 1, i - 1) \o SubSeq(d, i + 1, Len(d))

-----------------------------------------------------------------------------
(* The environment: chats, users and administrator lists the updates carry *)

\* the number of mentions cmd_all puts in one message
ChunkSize == 15

None == <<>>
Some(s) == <<s>>

GroupChat == [id |-> -1, type |-> "group"]
SuperChat == [id |-> -20, type |-> "supergroup"]
PrivateChat == [id |-> 5, type |-> "private"]

Chats == {GroupChat, SuperChat, PrivateChat}

\* the chats that have chat_member updates
GroupChats == {GroupChat, SuperChat}

\* ChatType.GROUP, ChatType.SUPERGROUP
GroupTypes == {"group", "supergroup"}

\* user 1 under two payloads: with a username, then renamed without one
UserA1 == [id |-> 1, username |-> Some(<<"a", "l">>),
           first_name |-> Some(<<"A">>), last_name |-> None]
UserA2 == [id |-> 1, username |-> None,
           first_name |-> Some(<<"A">>), last_name |-> Some(<<"L">>)]
\* a first name with a leading blank, a last name ending in a blank
UserB == [id |-> 2, username |-> None,
          first_name |-> Some(<<" ", "B">>), last_name |-> Some(<<"S", " ">>)]
\* a first name holding the field delimiter
UserD == [id |-> 4, username |-> None,
          first_name |-> Some(<<"x", "|", "y">>), last_name |-> None]
\* the bot's own account, as get_me() returns it
Me == [id |-> 9, username |-> Some(<<"b", "o", "t">>),
       first_name |-> Some(<<"M">>), last_name |-> None]

\* the senders of messages and the subjects of status changes
Users == {UserA1, UserA2, UserB, UserD}

\* the senders of the command messages
Commanders == {UserB}

\* member i of the large roster, in turn: a username "u<i>" and a first name; a first
\* and a last name; blank names; empty names
RosterUser(i) ==
    [id |-> 100 + i,
     username |-> IF i % 4 = 1 THEN Some(<<"u">> \o Str(i)) ELSE None,
     first_name |-> IF i % 4 = 1 THEN Some(<<"F">>)
                    ELSE IF i % 4 = 2 THEN Some(<<"F">> \o Str(i))
                    ELSE IF i % 4 = 3 THEN Some(<<" ">>)
                    ELSE Some(<<>>),
     last_name |-> IF i % 4 = 2 THEN Some(<<"L">>) ELSE None]

\* a list of administrators that takes more than one chunk to mention
BigAdmins == [k \in 1..(ChunkSize + 1) |-> RosterUser(k)] \o <<Me>>

\* results of get_chat_administrators (the users of the ChatMember objects)
AdminLists == {<<UserA1, Me>>, <<Me, UserA2, UserB>>, <<UserB, UserA1>>, BigAdmins}

\* ChatMember statuses of the Bot API
Statuses == {"creator", "administrator", "member", "restricted", "left", "kicked"}

-----------------------------------------------------------------------------
(* MemberDatabase: self.data is a dict chat_id_str -> dict user_id_str ->   *)
(* record; the file at self.path is a sequence of characters.  A registry   *)
(* value db is [data |-> self.data, file |-> content of the file].          *)

\* the line save() writes for one record
Row(chat_id, uid, u) ==
    chat_id \o <<"|">> \o uid \o <<"|">> \o u.username \o <<"|">>
            \o u.first_name \o <<"|">> \o u.last_name \o <<"\n">>

\* the rows written for the first n users of a chat, in dict order
RECURSIVE UserRows(_, _, _)
UserRows(chat_id, users, n) ==
    IF n = 0 THEN <<>>
    ELSE UserRows(chat_id, users, n - 1) \o Row(chat_id, users[n].key, users[n].val)

\* the rows written for the first n chats, in dict order
RECURSIVE ChatRows(_, _)
ChatRows(d, n) ==
    IF n = 0 THEN <<>>
    ELSE ChatRows(d, n - 1) \o UserRows(d[n].key, d[n].val, Len(d[n].val))

\* what save() writes: the rows of every chat
Serialize(d) == ChatRows(d, Len(d))

\* MemberDatabase.save: open(path, "w") and write every row
Save(db) == [db EXCEPT !.file = Serialize(db.data)]

\* the fields of a line of the file
Fields(line) == Split(Strip(line), "|")

\* load as it would be if it parsed every line before it stored any: a malformed line
\* leaves the registry empty
LoadedAllOrNothing(lines) ==
    IF \A i \in DOMAIN lines : Len(Fields(lines[i])) = 5 THEN Len(lines) ELSE 0

\* the number of lines load's loop stores before it ends: all of them, or those before
\* the first line that does not unpack into five fields (unpacking raises, the except
\* clause ends the load and self.data keeps what was stored so far)
Loaded(lines) ==
    IF \A i \in DOMAIN lines : Len(Fields(lines[i])) = 5 THEN Len(lines)
    ELSE (CHOOSE i \in DOMAIN lines :
             /\ Len(Fields(lines[i])) # 5
             /\ \A j \in 1..(i - 1) : Len(Fields(lines[j])) = 5) - 1

\* self.data after the first n turns of load's loop. Each turn does
\* self.data.setdefault(chat_id, {})[user_id] = {...}: a dict keeps its keys in the
\* order of their first assignment and each key keeps the value assigned last, so a
\* chat stands where its first line stands, a user where their first line within the
\* chat stands, and a user's record is that of their last line within the chat
LoadLines(lines, n) ==
    LET F == SubSeq([i \in 1..n |-> Fields(lines[i])], 1, n)
        Firsts(I, col) == {i \in I : \A j \in I : j < i => F[j][col] # F[i][col]}
        Ordered(S) == [k \in 1..Cardinality(S) |->
                          CHOOSE e \in S : Cardinality({x \in S : x <= e}) = k]
        LastOf(I, i) == CHOOSE l \in I : /\ F[l][2] = F[i][2]
                                         /\ \A j \in I : F[j][2] = F[i][2] => j <= l
        Record(i) == [username |-> F[i][3], first_name |-> F[i][4],
                      last_name |-> F[i][5]]
        UsersOf(c) == LET I == {i \in 1..n : F[i][1] = F[c][1]}
                          us == Ordered(Firsts(I, 2))
                      IN  [k \in DOMAIN us |->
                              [key |-> F[us[k]][2], val |-> Record(LastOf(I, us[k]))]]
        cs == Ordered(Firsts(1..n, 1))
    IN  [k \in DOMAIN cs |-> [key |-> F[cs[k]][1], val |-> UsersOf(cs[k])]]

\* MemberDatabase.__init__ on an existing file: self.data = {} and load()
Load(f) ==
    LET lines == Lines(ReadText(f))
    IN  [data |-> LoadLines(lines, Loaded(lines)), file |-> f]

\* add as it would be if it merged into the stored record: a field the new payload
\* leaves empty keeps its stored value
AddMerging(db, chat_id, user) ==
    LET chat == Str(chat_id)
        uid == Str(user.id)
        old == DictGet(DictGet(db.data, chat, <<>>), uid,
                       [username |-> <<>>, first_name |-> <<>>, last_name |-> <<>>])
        pick(new, kept) == IF OrEmpty(new) = <<>> THEN kept ELSE OrEmpty(new)
        rec == [username |-> pick(user.username, old.username),
                first_name |-> pick(user.first_name, old.first_name),
                last_name |-> pick(user.last_name, old.last_name)]
    IN  Save([db EXCEPT !.data =
                 DictSet(db.data, chat, DictSet(DictGet(db.data, chat, <<>>), uid, rec))])

\* MemberDatabase.add
Add(db, chat_id, user) ==
    LET chat == Str(chat_id)
        uid == Str(user.id)
        rec == [username |-> OrEmpty(user.username),
                first_name |-> OrEmpty(user.first_name),
                last_name |-> OrEmpty(user.last_name)]
    IN  Save([db EXCEPT !.data =
                 DictSet(db.data, chat, DictSet(DictGet(db.data, chat, <<>>), uid, rec))])

\* MemberDatabase.get, chat already a str
Get(db, chat) == DictGet(db.data, chat, <<>>)

\* clear as it would be if it looked the int chat_id up without str(): the keys are
\* strings, so nothing is found and nothing is removed
ClearIntKey(db, chat_id) == db

\* clear as it would be if it emptied the conversation's dict instead of deleting
\* the key
ClearKeepKey(db, chat_id) ==
    LET chat == Str(chat_id)
    IN  IF HasKey(db.data, chat)
        THEN Save([db EXCEPT !.data = DictSet(db.data, chat, <<>>)])
        ELSE db

\* MemberDatabase.clear
Clear(db, chat_id) ==
    LET chat == Str(chat_id)
    IN  IF HasKey(db.data, chat)
        THEN Save([db EXCEPT !.data = DictDel(db.data, chat)])
        ELSE db

\* the registry of the running process
Db == [data |-> data, file |-> file]

-----------------------------------------------------------------------------
(* cmd_all: the mention tokens, their chunks and the text of a chunk message *)

\* the token as it would be without .strip()
MentionNoStrip(uid, u) ==
    IF u.username # <<>> THEN <<"@">> \o u.username
    ELSE LET name == u.first_name \o <<" ">> \o u.last_name
         IN  <<"<a href=\"tg://user?id=">> \o uid \o <<"\">">> \o name \o <<"</a>">>

\* the token of one record of members.items()
Mention(uid, u) ==
    IF u.username # <<>> THEN <<"@">> \o u.username
    ELSE LET name == Strip(u.first_name \o <<" ">> \o u.last_name)
         IN  <<"<a href=\"tg://user?id=">> \o uid \o <<"\">">> \o name \o <<"</a>">>

\* mentions: one token per record, in dict order
Mentions(members) == [k \in DOMAIN members |-> Mention(members[k].key, members[k].val)]

\* the chunks as they would be with the slice one too long: mentions[i:i+16]
PartsLongSlice(mentions) ==
    LET starts == Range(0, Len(mentions), ChunkSize)
    IN  [k \in DOMAIN starts |-> Slice(mentions, starts[k], starts[k] + ChunkSize + 1)]

\* parts = [mentions[i:i+15] for i in range(0, len(mentions), 15)]
Parts(mentions) ==
    LET starts == Range(0, Len(mentions), ChunkSize)
    IN  [k \in DOMAIN starts |-> Slice(mentions, starts[k], starts[k] + ChunkSize)]

\* the header line of chunk message i of total
Header(i, total) ==
    <<"Vsem vnimanie! (">> \o Str(i) \o <<"/">> \o Str(total) \o <<")", "\n">>

\* the text as it would be with enumerate(parts) counting from 0
ChunkTextFromZero(parts, i) == Header(i - 1, Len(parts)) \o Join(parts[i], <<" ">>)

\* the text of the reply that carries chunk number i (from 1) of parts
ChunkText(parts, i) == Header(i, Len(parts)) \o Join(parts[i], <<" ">>)

EmptyListText == <<"Spisok pust. Sdelajte /scan ili podozhdite aktivnosti uchastnikov.">>

StartText == <<"Privet! Ya bot dlya upominanij.">>

NotAdminText == <<"Ya ne admin etogo chata">>

\* the reply that ends a scan of n administrators
ScanDoneText(n) ==
    <<"Skanirovanie adminov zaversheno: ">> \o Str(n) \o <<" polzovatelej dobavleno.">>

\* any(adm.user.id == me.id for adm in admins)
IsAdmin(admins, me) == \E k \in DOMAIN admins : admins[k].id = me.id

-----------------------------------------------------------------------------
(* Handlers.  An update is handled in a task of its own; a task runs without *)
(* interruption from one await to the next.  tasks holds the handler         *)
(* invocations that reached an await or returned, in order of delivery;      *)
(* running is the task that is inside cmd_scan's block of registry calls     *)
(* (no await in it, so no other task runs), 0 when there is none.            *)
(* Task fields: kind (handler), chat (msg.chat), pc (the await it is         *)
(* suspended at, or "done"), admins, idx (loop position), members (what     *)
(* db.get returned, as it was when cmd_all iterated it), mentions, parts,    *)
(* sent (texts of the replies issued, in order), acked (replies completed),  *)
(* prev (history: the members the scan's clear found, or the members the     *)
(* registry held when cmd_all sent its latest chunk), user (msg.from_user,   *)
(* or the subject of a chat_member update), status (of a chat_member        *)
(* update).  on_message and on_chat_member have no await: their             *)
(* invocations enter tasks already returned.                                *)

NewTask(kind, chat, pc, sent) ==
    [kind |-> kind, chat |-> chat, pc |-> pc, admins |-> <<>>, idx |-> 0,
     members |-> <<>>, mentions |-> <<>>, parts |-> <<>>, sent |-> sent, acked |-> 0,
     prev |-> <<>>, user |-> None, status |-> ""]

\* a handler invocation on a message from user
MsgTask(kind, chat, user, pc, sent) == [NewTask(kind, chat, pc, sent) EXCEPT !.user = Some(user)]

\* history of add payloads: the last user object added under each (chat, uid) of the
\* running registry
NoteAdd(la, chat_id, user) ==
    {e \in la : ~(e.chat = Str(chat_id) /\ e.uid = Str(user.id))}
        \cup {[chat |-> Str(chat_id), uid |-> Str(user.id), user |-> user]}

NoteClear(la, chat_id) == {e \in la : e.chat # Str(chat_id)}

Init ==
    /\ data = <<>>
    /\ file = <<>>
    /\ tasks = <<>>
    /\ running = 0
    /\ nEvents = 0
    /\ nRestarts = 0
    /\ lastAdd = {}

\* on_message: a message no command filter matched
OnMessage(chat, user) ==
    /\ running = 0
    /\ nEvents' = nEvents + 1
    /\ IF chat.type \in GroupTypes
       THEN LET db == Add(Db, chat.id, user)
            IN  /\ data' = db.data
                /\ file' = db.file
                /\ lastAdd' = NoteAdd(lastAdd, chat.id, user)
       ELSE UNCHANGED <<data, file, lastAdd>>
    /\ tasks' = Append(tasks, MsgTask("message", chat, user, "done", <<>>))
    /\ UNCHANGED <<running, nRestarts>>

\* on_chat_member as it would be if a member who left or was kicked were removed
OnChatMemberRemoving(chat, user, status) ==
    /\ running = 0
    /\ nEvents' = nEvents + 1
    /\ IF status \in {"member", "administrator", "creator"}
       THEN LET db == Add(Db, chat.id, user)
            IN  /\ data' = db.data
                /\ file' = db.file
                /\ lastAdd' = NoteAdd(lastAdd, chat.id, user)
       ELSE IF status \in {"left", "kicked"} /\ HasKey(Get(Db, Str(chat.id)), Str(user.id))
       THEN LET rest == DictDel(Get(Db, Str(chat.id)), Str(user.id))
                db == Save([Db EXCEPT !.data =
                              IF rest = <<>> THEN DictDel(data, Str(chat.id))
                              ELSE DictSet(data, Str(chat.id), rest)])
            IN  /\ data' = db.data
                /\ file' = db.file
                /\ lastAdd' = {e \in lastAdd :
                                 ~(e.chat = Str(chat.id) /\ e.uid = Str(user.id))}
       ELSE UNCHANGED <<data, file, lastAdd>>
    /\ tasks' = Append(tasks, [MsgTask("chat_member", chat, user, "done", <<>>)
                                 EXCEPT !.status = status])
    /\ UNCHANGED <<running, nRestarts>>

\* on_chat_member
OnChatMember(chat, user, status) ==
    /\ running = 0
    /\ nEvents' = nEvents + 1
    /\ IF status \in {"member", "administrator", "creator"}
       THEN LET db == Add(Db, chat.id, user)
            IN  /\ data' = db.data
                /\ file' = db.file
                /\ lastAdd' = NoteAdd(lastAdd, chat.id, user)
       ELSE UNCHANGED <<data, file, lastAdd>>
    /\ tasks' = Append(tasks, [MsgTask("chat_member", chat, user, "done", <<>>)
                                 EXCEPT !.status = status])
    /\ UNCHANGED <<running, nRestarts>>

\* cmd_start up to its await
CmdStart(chat, user) ==
    /\ running = 0
    /\ nEvents' = nEvents + 1
    /\ tasks' = Append(tasks, MsgTask("start", chat, user, "reply", <<StartText>>))
    /\ UNCHANGED <<data, file, running, nRestarts, lastAdd>>

\* cmd_scan up to "await bot.get_chat_administrators"
CmdScan(chat, user) ==
    /\ running = 0
    /\ nEvents' = nEvents + 1
    /\ tasks' = Append(tasks,
                  IF chat.type \notin GroupTypes
                  THEN MsgTask("scan", chat, user, "done", <<>>)
                  ELSE MsgTask("scan", chat, user, "get_admins", <<>>))
    /\ UNCHANGED <<data, file, running, nRestarts, lastAdd>>

\* get_chat_administrators returns admins; cmd_scan goes on to "await bot.get_me"
ScanAdmins(t, admins) ==
    /\ running = 0
    /\ tasks[t].kind = "scan" /\ tasks[t].pc = "get_admins"
    /\ tasks' = [tasks EXCEPT ![t].admins = admins, ![t].pc = "get_me"]
    /\ UNCHANGED <<data, file, running, nEvents, nRestarts, lastAdd>>

\* cmd_scan as it would be without the administrator check
ScanMeNoCheck(t) ==
    /\ running = 0
    /\ tasks[t].kind = "scan" /\ tasks[t].pc = "get_me"
    /\ tasks' = [tasks EXCEPT ![t].pc = "clear"]
    /\ running' = t
    /\ UNCHANGED <<data, file, nEvents, nRestarts, lastAdd>>

\* get_me returns: the administrator check, and the rejection reply if it fails
ScanMe(t) ==
    /\ running = 0
    /\ tasks[t].kind = "scan" /\ tasks[t].pc = "get_me"
    /\ IF ~IsAdmin(tasks[t].admins, Me)
       THEN /\ tasks' = [tasks EXCEPT ![t].sent = <<NotAdminText>>, ![t].pc = "reply"]
            /\ UNCHANGED running
       ELSE /\ tasks' = [tasks EXCEPT ![t].pc = "clear"]
            /\ running' = t
    /\ UNCHANGED <<data, file, nEvents, nRestarts, lastAdd>>

\* cmd_scan as it would be without its db.clear
ScanNoClear(t) ==
    /\ running = t
    /\ tasks[t].pc = "clear"
    /\ tasks' = [tasks EXCEPT ![t].pc = "add", ![t].idx = 1,
                              ![t].prev = Get(Db, Str(tasks[t].chat.id))]
    /\ UNCHANGED <<data, file, running, nEvents, nRestarts, lastAdd>>

\* the clear as it would be with an await after it: other handlers may run before
\* the adds
ScanClearYield(t) ==
    /\ running = t
    /\ tasks[t].pc = "clear"
    /\ LET db == Clear(Db, tasks[t].chat.id)
       IN  /\ data' = db.data
           /\ file' = db.file
    /\ lastAdd' = NoteClear(lastAdd, tasks[t].chat.id)
    /\ tasks' = [tasks EXCEPT ![t].pc = "add", ![t].idx = 1,
                              ![t].prev = Get(Db, Str(tasks[t].chat.id))]
    /\ running' = 0
    /\ UNCHANGED <<nEvents, nRestarts>>

\* db.clear(chat_id) of cmd_scan
ScanClear(t) ==
    /\ running = t
    /\ tasks[t].pc = "clear"
    /\ LET db == Clear(Db, tasks[t].chat.id)
       IN  /\ data' = db.data
           /\ file' = db.file
    /\ lastAdd' = NoteClear(lastAdd, tasks[t].chat.id)
    /\ tasks' = [tasks EXCEPT ![t].pc = "add", ![t].idx = 1,
                              ![t].prev = Get(Db, Str(tasks[t].chat.id))]
    /\ UNCHANGED <<running, nEvents, nRestarts>>

\* "for adm in admins: db.add(chat_id, adm.user)" from position i of the list on
RECURSIVE AddAll(_, _, _, _)
AddAll(db, chat_id, admins, i) ==
    IF i > Len(admins) THEN db
    ELSE AddAll(Add(db, chat_id, admins[i]), chat_id, admins, i + 1)

RECURSIVE NoteAddAll(_, _, _, _)
NoteAddAll(la, chat_id, admins, i) ==
    IF i > Len(admins) THEN la
    ELSE NoteAddAll(NoteAdd(la, chat_id, admins[i]), chat_id, admins, i + 1)

\* the loop of cmd_scan over admins, which nothing interrupts
ScanAdd(t) ==
    /\ running = t
    /\ tasks[t].pc = "add"
    /\ tasks[t].idx <= Len(tasks[t].admins)
    /\ LET db == AddAll(Db, tasks[t].chat.id, tasks[t].admins, tasks[t].idx)
       IN  /\ data' = db.data
           /\ file' = db.file
    /\ lastAdd' = NoteAddAll(lastAdd, tasks[t].chat.id, tasks[t].admins, tasks[t].idx)
    /\ tasks' = [tasks EXCEPT ![t].idx = Len(tasks[t].admins) + 1]
    /\ UNCHANGED <<running, nEvents, nRestarts>>

\* the loop is over: the reply with len(admins), which cmd_scan awaits
ScanReport(t) ==
    /\ running = t
    /\ tasks[t].pc = "add"
    /\ tasks[t].idx > Len(tasks[t].admins)
    /\ tasks' = [tasks EXCEPT ![t].sent = <<ScanDoneText(Len(tasks[t].admins))>>,
                              ![t].pc = "reply"]
    /\ running' = 0
    /\ UNCHANGED <<data, file, nEvents, nRestarts, lastAdd>>

\* cmd_all as it would be without the "if not members" branch: the loop over no parts
\* sends nothing
CmdAllNoEmptyCheck(chat, user) ==
    /\ running = 0
    /\ nEvents' = nEvents + 1
    /\ LET members == Get(Db, Str(chat.id))
           mentions == Mentions(members)
           parts == Parts(mentions)
       IN  tasks' = Append(tasks,
             IF chat.type \notin GroupTypes \/ members = <<>>
             THEN MsgTask("all", chat, user, "done", <<>>)
             ELSE [MsgTask("all", chat, user, "reply", <<ChunkText(parts, 1)>>)
                     EXCEPT !.members = members, !.mentions = mentions,
                            !.parts = parts, !.idx = 1])
    /\ UNCHANGED <<data, file, running, nRestarts, lastAdd>>

\* cmd_all up to its first await: the EmptyMemberSet reply, or the tokens, the
\* chunks and the reply with the first chunk
CmdAll(chat, user) ==
    /\ running = 0
    /\ nEvents' = nEvents + 1
    /\ LET members == Get(Db, Str(chat.id))
           mentions == Mentions(members)
           parts == Parts(mentions)
       IN  tasks' = Append(tasks,
             IF chat.type \notin GroupTypes THEN MsgTask("all", chat, user, "done", <<>>)
             ELSE IF members = <<>>
                  THEN MsgTask("all", chat, user, "reply", <<EmptyListText>>)
             ELSE [MsgTask("all", chat, user, "reply", <<ChunkText(parts, 1)>>)
                     EXCEPT !.members = members, !.mentions = mentions,
                            !.parts = parts, !.idx = 1])
    /\ UNCHANGED <<data, file, running, nRestarts, lastAdd>>

\* the next chunk as it would be if cmd_all read the registry again for every chunk
AllNextChunkReread(t) ==
    /\ running = 0
    /\ tasks[t].kind = "all" /\ tasks[t].pc = "reply"
    /\ tasks[t].idx < Len(tasks[t].parts)
    /\ LET parts == Parts(Mentions(Get(Db, Str(tasks[t].chat.id))))
       IN  tasks' = [tasks EXCEPT ![t].acked = @ + 1,
                                  ![t].idx = @ + 1,
                                  ![t].sent = Append(@,
                                      IF tasks[t].idx + 1 <= Len(parts)
                                      THEN ChunkText(parts, tasks[t].idx + 1)
                                      ELSE Header(tasks[t].idx + 1, Len(parts))),
                                  ![t].prev = Get(Db, Str(tasks[t].chat.id))]
    /\ UNCHANGED <<data, file, running, nEvents, nRestarts, lastAdd>>

\* the reply with chunk idx completed and the loop of cmd_all has a next chunk
AllNextChunk(t) ==
    /\ running = 0
    /\ tasks[t].kind = "all" /\ tasks[t].pc = "reply"
    /\ tasks[t].idx < Len(tasks[t].parts)
    /\ tasks' = [tasks EXCEPT ![t].acked = @ + 1,
                              ![t].idx = @ + 1,
                              ![t].sent = Append(@, ChunkText(tasks[t].parts, tasks[t].idx + 1)),
                              ![t].prev = Get(Db, Str(tasks[t].chat.id))]
    /\ UNCHANGED <<data, file, running, nEvents, nRestarts, lastAdd>>

\* the last reply of a handler completed: the handler returns
ReplyDone(t) ==
    /\ running = 0
    /\ tasks[t].pc = "reply"
    /\ tasks[t].kind = "all" => tasks[t].idx >= Len(tasks[t].parts)
    /\ tasks' = [tasks EXCEPT ![t].acked = @ + 1, ![t].pc = "done"]
    /\ UNCHANGED <<data, file, running, nEvents, nRestarts, lastAdd>>

\* the process ends (on_shutdown saves when it ends in order) and a new one
\* starts: db = MemberDatabase() loads the file
Restart(graceful) ==
    /\ graceful => running = 0
    /\ nRestarts' = nRestarts + 1
    /\ LET old == IF graceful THEN Save(Db) ELSE Db
           db == Load(old.file)
       IN  /\ data' = db.data
           /\ file' = db.file
    /\ tasks' = <<>>
    /\ running' = 0
    /\ lastAdd' = {}
    /\ UNCHANGED nEvents

Next ==
    \/ /\ nEvents < MaxEvents
       /\ \/ \E chat \in Chats, user \in Users : OnMessage(chat, user)
          \/ \E chat \in GroupChats, user \in Users, status \in Statuses :
                OnChatMember(chat, user, status)
          \/ \E chat \in Chats, user \in Commanders : CmdStart(chat, user)
          \/ \E chat \in Chats, user \in Commanders : CmdScan(chat, user)
          \/ \E chat \in Chats, user \in Commanders : CmdAll(chat, user)
    \/ \E t \in DOMAIN tasks, admins \in AdminLists : ScanAdmins(t, admins)
    \/ \E t \in DOMAIN tasks : ScanMe(t)
    \/ \E t \in DOMAIN tasks : ScanClear(t)
    \/ \E t \in DOMAIN tasks : ScanAdd(t)
    \/ \E t \in DOMAIN tasks : ScanReport(t)
    \/ \E t \in DOMAIN tasks : AllNextChunk(t)
    \/ \E t \in DOMAIN tasks : ReplyDone(t)
    \/ nRestarts < MaxRestarts /\ \E graceful \in BOOLEAN : Restart(graceful)

Spec == Init /\ [][Next]_vars

\* one notify-all at a time in a conversation that grows to MaxMembers members
NextCompose ==
    \/ /\ Len(Get(Db, Str(GroupChat.id))) < MaxMembers
       /\ OnMessage(GroupChat, RosterUser(Len(Get(Db, Str(GroupChat.id))) + 1))
    \/ (\A t \in DOMAIN tasks : tasks[t].kind = "message") /\ CmdAll(GroupChat, UserB)
    \/ \E t \in DOMAIN tasks : AllNextChunk(t)
    \/ \E t \in DOMAIN tasks : ReplyDone(t)

SpecCompose == Init /\ [][NextCompose]_vars

\* user 101 of the roster under another payload: no username, a last name
Renamed == [RosterUser(1) EXCEPT !.username = None, !.last_name = Some(<<"R">>)]

\* the senders and administrator lists of the runs that start from a scanned group
StableUsers == {Renamed, UserB}
StableAdminLists == {<<UserA1, Me>>, <<Renamed, Me>>}

\* the registry after a scan of the group over BigAdmins, nothing in flight
InitStable ==
    /\ LET db == AddAll([data |-> <<>>, file |-> <<>>], GroupChat.id, BigAdmins, 1)
       IN  /\ data = db.data
           /\ file = db.file
    /\ lastAdd = NoteAddAll({}, GroupChat.id, BigAdmins, 1)
    /\ tasks = <<>>
    /\ running = 0
    /\ nEvents = 0
    /\ nRestarts = 0

\* notify-all, messages and scans in the one group
NextStable ==
    \/ /\ nEvents < MaxEvents
       /\ \/ \E user \in StableUsers : OnMessage(GroupChat, user)
          \/ \E user \in Commanders : CmdScan(GroupChat, user)
          \/ \E user \in Commanders : CmdAll(GroupChat, user)
    \/ \E t \in DOMAIN tasks, admins \in StableAdminLists : ScanAdmins(t, admins)
    \/ \E t \in DOMAIN tasks : ScanMe(t)
    \/ \E t \in DOMAIN tasks : ScanClear(t)
    \/ \E t \in DOMAIN tasks : ScanAdd(t)
    \/ \E t \in DOMAIN tasks : ScanReport(t)
    \/ \E t \in DOMAIN tasks : AllNextChunk(t)
    \/ \E t \in DOMAIN tasks : ReplyDone(t)

SpecStable == InitStable /\ [][NextStable]_vars

-----------------------------------------------------------------------------
(* Saves that fail.  save() opens the file with mode "w", which empties it,   *)
(* writes the rows and closes; any exception is caught and logged inside      *)
(* save, so its caller goes on.  A save that fails leaves the file untouched  *)
(* (open raised) or holding the first w characters of the rows (the write or  *)
(* the flush at close raised, or the process was stopped there).              *)

\* the failed save as it would be if the caller undid its change of self.data
SaveFailedUndone(old, new, w) ==
    [old EXCEPT !.file = IF w < 0 THEN old.file ELSE SubSeq(new.file, 1, w)]

\* the registry after an add or clear that took old to new in memory and whose save
\* failed: at open when w < 0, after w characters reached the file otherwise
SaveFailed(old, new, w) ==
    [new EXCEPT !.file = IF w < 0 THEN old.file ELSE SubSeq(new.file, 1, w)]

\* the points at which the save of content can fail
StopPoints(content) == (0 - 1)..(Len(content) - 1)

\* on_message in a group whose db.add meets a failing save
OnMessageFault(chat, user, w) ==
    /\ running = 0
    /\ chat.type \in GroupTypes
    /\ w \in StopPoints(Add(Db, chat.id, user).file)
    /\ nEvents' = nEvents + 1
    /\ LET db == SaveFailed(Db, Add(Db, chat.id, user), w)
       IN  /\ data' = db.data
           /\ file' = db.file
    /\ lastAdd' = NoteAdd(lastAdd, chat.id, user)
    /\ tasks' = Append(tasks, MsgTask("message", chat, user, "done", <<>>))
    /\ UNCHANGED <<running, nRestarts>>

\* db.clear(chat_id) of cmd_scan on a tracked conversation, meeting a failing save
ScanClearFault(t, w) ==
    /\ running = t
    /\ tasks[t].pc = "clear"
    /\ HasKey(data, Str(tasks[t].chat.id))
    /\ w \in StopPoints(Clear(Db, tasks[t].chat.id).file)
    /\ LET db == SaveFailed(Db, Clear(Db, tasks[t].chat.id), w)
       IN  /\ data' = db.data
           /\ file' = db.file
    /\ lastAdd' = NoteClear(lastAdd, tasks[t].chat.id)
    /\ tasks' = [tasks EXCEPT ![t].pc = "add", ![t].idx = 1,
                              ![t].prev = Get(Db, Str(tasks[t].chat.id))]
    /\ UNCHANGED <<running, nEvents, nRestarts>>

\* the users and administrator lists of the runs with failing saves
FaultUsers == {UserA1, UserB}
FaultAdminLists == {<<UserA1, Me>>}

\* two conversations served by a process whose saves may fail and which may be
\* stopped and started again
NextFault ==
    \/ /\ nEvents < MaxEvents
       /\ \/ \E chat \in GroupChats, user \in FaultUsers : OnMessage(chat, user)
          \/ \E chat \in GroupChats, user \in FaultUsers :
                \E w \in StopPoints(Add(Db, chat.id, user).file) :
                    OnMessageFault(chat, user, w)
          \/ \E user \in Commanders : CmdScan(GroupChat, user)
    \/ \E t \in DOMAIN tasks, admins \in FaultAdminLists : ScanAdmins(t, admins)
    \/ \E t \in DOMAIN tasks : ScanMe(t)
    \/ \E t \in DOMAIN tasks : ScanClear(t)
    \/ \E t \in DOMAIN tasks :
          \E w \in StopPoints(Clear(Db, tasks[t].chat.id).file) : ScanClearFault(t, w)
    \/ \E t \in DOMAIN tasks : ScanAdd(t)
    \/ \E t \in DOMAIN tasks : ScanReport(t)
    \/ \E t \in DOMAIN tasks : ReplyDone(t)
    \/ nRestarts < MaxRestarts /\ Restart(FALSE)

SpecFault == Init /\ [][NextFault]_vars

-----------------------------------------------------------------------------
(* load on store files of any content: the process starts on a file that is  *)
(* made of up to MaxRows pieces, well-formed rows and others.                *)

\* pieces of a store file: rows of users 1 and 2, a second row of user 1 in the same
\* conversation, a row with six fields, a blank line, a row ended by "\r\n", and a
\* row cut short with no line end
FilePieces ==
    {<<"-", "1", "|", "1", "|", "a", "l", "|", "A", "|", "\n">>,
     <<"-", "1", "|", "1", "|", "|", "A", "|", "L", "\n">>,
     <<"-", "2", "0", "|", "2", "|", "|", " ", "B", "|", "S", " ", "\n">>,
     <<"-", "1", "|", "4", "|", "|", "x", "|", "y", "|", "\n">>,
     <<"\n">>,
     <<"-", "1", "|", "3", "|", "|", "|", "\r", "\n">>,
     <<"-", "1", "|", "2">>}

\* the files made of n pieces
RECURSIVE FilesOf(_)
FilesOf(n) == IF n = 0 THEN {<<>>}
              ELSE {f \o p : f \in FilesOf(n - 1), p \in FilePieces}

\* db = MemberDatabase() on an existing file of up to MaxRows pieces
InitLoad ==
    /\ \E n \in 0..MaxRows : \E f \in FilesOf(n) :
          /\ file = f
          /\ data = Load(f).data
    /\ tasks = <<>>
    /\ running = 0
    /\ nEvents = 0
    /\ nRestarts = 0
    /\ lastAdd = {}

\* the process is stopped and started again
NextLoad == nRestarts < MaxRestarts /\ \E graceful \in BOOLEAN : Restart(graceful)

SpecLoad == InitLoad /\ [][NextLoad]_vars

-----------------------------------------------------------------------------
(* Properties *)

\* the record add stores for a user object
Payload(user) == [username |-> OrEmpty(user.username),
                  first_name |-> OrEmpty(user.first_name),
                  last_name |-> OrEmpty(user.last_name)]

\* the (chat, uid, record) triples of a mapping
Triples(d) == UNION {{<<d[i].key, d[i].val[j].key, d[i].val[j].val>> :
                        j \in DOMAIN d[i].val} : i \in DOMAIN d}

\* two mappings hold the same conversations, the same users and the same field values
SameMapping(d1, d2) == Keys(d1) = Keys(d2) /\ Triples(d1) = Triples(d2)

\* C1: last-write-wins: in every state, for every (conversation, user) added to since
\* the registry was created and since the conversation was last cleared, get of the
\* conversation holds under that user exactly the record of the most recent add, every
\* field taken from that add's payload.
C1_LastWriteWins ==
    \A e \in lastAdd :
        /\ HasKey(Get(Db, e.chat), e.uid)
        /\ DictGet(Get(Db, e.chat), e.uid, <<>>) = Payload(e.user)

\* C1 witness: a scan added user 1 with a username (UserA1) next to the bot, and a
\* later add of the same user without one (UserA2) replaced that record.
C1_Witness ==
    \E t \in DOMAIN tasks :
        /\ tasks[t].kind = "scan" /\ tasks[t].pc = "done"
        /\ tasks[t].admins = <<UserA1, Me>>
        /\ [chat |-> Str(tasks[t].chat.id), uid |-> Str(UserA1.id), user |-> UserA2]
              \in lastAdd
        /\ [chat |-> Str(tasks[t].chat.id), uid |-> Str(Me.id), user |-> Me] \in lastAdd

\* C2: persistence-on-mutation: in every state the content of the store file, read
\* the way load reads it, is the in-memory mapping (every registry call is one step, so
\* no state is in the middle of one; every write succeeds).
C2_FileDecodesToMemory == SameMapping(Load(file).data, data)

\* C3: round-trip: whenever the registry is created anew from the store (a restart,
\* after on_shutdown's save or without it), the mapping it loads is equivalent to the
\* one the previous registry held.
C3_RoundTrip ==
    [][nRestarts' # nRestarts => SameMapping(data', data)]_vars

\* C4: resync postcondition: when the list of administrators holds the bot, then
\* in the state right after the last add of the scan (the clear and the adds done, the
\* reply not yet issued) get of the conversation holds exactly the administrators of
\* the list, each with the payload from the list, so no member tracked before who is
\* not in the list; and the reply the scan then issues reports the number of
\* administrators in the list.
C4_ResyncPostcondition ==
    \A t \in DOMAIN tasks :
        (tasks[t].kind = "scan" /\ IsAdmin(tasks[t].admins, Me)) =>
            LET admins == tasks[t].admins
                members == Get(Db, Str(tasks[t].chat.id))
            IN  /\ (tasks[t].pc = "add" /\ tasks[t].idx > Len(admins)) =>
                      /\ Keys(members) = {Str(admins[k].id) : k \in DOMAIN admins}
                      /\ \A k \in DOMAIN admins :
                            DictGet(members, Str(admins[k].id), <<>>) = Payload(admins[k])
                /\ tasks[t].pc \in {"reply", "done"} =>
                      tasks[t].sent = <<ScanDoneText(Len(admins))>>

\* C4 witness: a scan over three administrators, the bot among them, has done its last
\* add in a conversation that tracked at least five members who are not in the list.
C4_Witness ==
    \E t \in DOMAIN tasks :
        /\ tasks[t].kind = "scan" /\ running = t
        /\ tasks[t].pc = "add" /\ tasks[t].idx > Len(tasks[t].admins)
        /\ Len(tasks[t].admins) = 3
        /\ Cardinality(Keys(tasks[t].prev)
                         \ {Str(tasks[t].admins[k].id) : k \in DOMAIN tasks[t].admins}) >= 5

\* C5: resync rejection: no step of a scan whose list of administrators does not hold
\* the bot changes the in-memory mapping or the store file, and the one reply it
\* issues is the rejection.
C5_RejectedResyncMutatesNothing ==
    [][\A t \in DOMAIN tasks :
          (/\ t \in DOMAIN tasks'
           /\ tasks[t].kind = "scan"
           /\ tasks[t].pc \in {"get_me", "reply"}
           /\ ~IsAdmin(tasks[t].admins, Me)
           /\ tasks'[t] # tasks[t]) =>
              /\ data' = data
              /\ file' = file
              /\ tasks'[t].pc \in {"reply", "done"}
              /\ tasks'[t].sent = <<NotAdminText>>]_vars

\* C5 witness: a scan of a conversation with tracked members was rejected.
C5_Witness ==
    \E t \in DOMAIN tasks :
        /\ tasks[t].kind = "scan" /\ tasks[t].pc = "done"
        /\ tasks[t].sent = <<NotAdminText>>
        /\ Get(Db, Str(tasks[t].chat.id)) # <<>>

\* C6: the step that runs clear leaves get of the conversation empty, whatever it held
\* before; when the conversation was not tracked, the step changes neither the
\* in-memory mapping nor the store file.
C6_ClearEmpties ==
    [][\A t \in DOMAIN tasks :
          (/\ t \in DOMAIN tasks'
           /\ tasks[t].pc = "clear"
           /\ tasks'[t].pc = "add") =>
              /\ DictGet(data', Str(tasks[t].chat.id), <<>>) = <<>>
              /\ ~HasKey(data', Str(tasks[t].chat.id))
              /\ ~HasKey(data, Str(tasks[t].chat.id)) => (data' = data /\ file' = file)]_vars

\* C6 witness: one scan cleared a conversation that was not tracked and a later one
\* cleared a conversation with tracked members, in a registry that tracks another
\* conversation as well.
C6_Witness ==
    \E t1, t2 \in DOMAIN tasks :
        /\ tasks[t1].kind = "scan" /\ tasks[t1].pc \in {"add", "reply", "done"}
        /\ IsAdmin(tasks[t1].admins, Me) /\ tasks[t1].prev = <<>>
        /\ tasks[t2].kind = "scan" /\ tasks[t2].pc = "add" /\ tasks[t2].idx = 1
        /\ tasks[t2].prev # <<>>

\* the concatenation of the chunks
RECURSIVE Flatten(_)
Flatten(parts) == IF parts = <<>> THEN <<>> ELSE Head(parts) \o Flatten(Tail(parts))

\* s begins with p
StartsWith(s, p) == Len(s) >= Len(p) /\ SubSeq(s, 1, Len(p)) = p

\* ceil(n / ChunkSize)
CeilChunks(n) == (n + ChunkSize - 1) \div ChunkSize

\* the notify-all invocations that found members
AllTasks == {t \in DOMAIN tasks : tasks[t].kind = "all" /\ tasks[t].members # <<>>}

\* C7: chunk size invariant: for every notify-all over a non-empty member set, every
\* chunk holds between 1 and 15 tokens, every chunk but the last holds 15, and the
\* chunks concatenated in order are the token list, which has one token per member in
\* the order of the members.
C7_ChunkSizes ==
    \A t \in AllTasks :
        LET parts == tasks[t].parts
        IN  /\ parts # <<>>
            /\ \A k \in DOMAIN parts : Len(parts[k]) >= 1 /\ Len(parts[k]) <= ChunkSize
            /\ \A k \in DOMAIN parts : k < Len(parts) => Len(parts[k]) = ChunkSize
            /\ Flatten(parts) = tasks[t].mentions
            /\ Len(tasks[t].mentions) = Len(tasks[t].members)

\* C7 witness: a notify-all over 31 members cut three chunks of 15, 15 and 1 tokens.
C7_Witness ==
    \E t \in AllTasks :
        /\ Len(tasks[t].members) = 2 * ChunkSize + 1
        /\ Len(tasks[t].parts) = 3
        /\ Len(tasks[t].parts[1]) = ChunkSize
        /\ Len(tasks[t].parts[3]) = 1

\* C8: chunk count and headers: a notify-all over n >= 1 members sends no more than
\* ceil(n/15) messages and exactly that many once it has returned; the i-th message
\* sent begins with the header of position i and total ceil(n/15); and a message is
\* sent only when every earlier one has completed (at most one reply is in flight).
C8_ChunkCountAndHeaders ==
    \A t \in AllTasks :
        LET total == CeilChunks(Len(tasks[t].members))
            sent == tasks[t].sent
        IN  /\ Len(sent) <= total
            /\ tasks[t].pc = "done" => Len(sent) = total
            /\ \A i \in DOMAIN sent : StartsWith(sent[i], Header(i, total))
            /\ tasks[t].pc = "reply" => Len(sent) = tasks[t].acked + 1
            /\ tasks[t].pc = "done" => Len(sent) = tasks[t].acked

\* C8 witness: a notify-all over 16 members returned after two messages, of 15 tokens
\* under the header 1/2 and of 1 token under the header 2/2.
C8_Witness ==
    \E t \in AllTasks :
        /\ Len(tasks[t].members) = ChunkSize + 1
        /\ tasks[t].pc = "done"
        /\ Len(tasks[t].sent) = 2
        /\ tasks[t].sent[1] =
              <<"Vsem vnimanie! (", "1", "/", "2", ")", "\n">>
                  \o Join(SubSeq(tasks[t].mentions, 1, ChunkSize), <<" ">>)
        /\ tasks[t].sent[2] =
              <<"Vsem vnimanie! (", "2", "/", "2", ")", "\n">>
                  \o tasks[t].mentions[ChunkSize + 1]

\* C9: empty member set: get of a conversation that is not tracked is the empty
\* mapping; the step that starts a notify-all changes neither the in-memory mapping
\* nor the store file (the get creates no entry), and in a group whose conversation is
\* not tracked it sends the "list is empty" message and cuts no chunk; such an
\* invocation never sends a second message; and no invocation holds an empty chunk.
C9_EmptyMemberSet ==
    [][/\ \A chat \in Chats : ~HasKey(data, Str(chat.id)) => Get(Db, Str(chat.id)) = <<>>
       /\ \A t \in DOMAIN tasks' :
             (t \notin DOMAIN tasks /\ tasks'[t].kind = "all") =>
                 /\ data' = data
                 /\ file' = file
                 /\ (tasks'[t].chat.type \in GroupTypes
                       /\ ~HasKey(data, Str(tasks'[t].chat.id))) =>
                        /\ tasks'[t].sent = <<EmptyListText>>
                        /\ tasks'[t].parts = <<>>
                        /\ tasks'[t].pc = "reply"
       /\ \A t \in DOMAIN tasks :
             (t \in DOMAIN tasks' /\ tasks[t].kind = "all") =>
                 /\ tasks[t].sent = <<EmptyListText>> => tasks'[t].sent = tasks[t].sent
                 /\ \A k \in DOMAIN tasks[t].parts : tasks[t].parts[k] # <<>>]_vars

\* C9 witness: a notify-all in a group that is not tracked, while another conversation
\* is, has returned after the one "list is empty" message.
C9_Witness ==
    \E t \in DOMAIN tasks :
        /\ tasks[t].kind = "all" /\ tasks[t].chat.type \in GroupTypes
        /\ tasks[t].pc = "done"
        /\ tasks[t].sent = <<EmptyListText>> /\ tasks[t].acked = 1
        /\ ~HasKey(data, Str(tasks[t].chat.id))
        /\ data # <<>>

\* d is s without its leading and trailing whitespace
IsTrimOf(d, s) ==
    /\ d # <<>> => (d[1] \notin Whitespace /\ d[Len(d)] \notin Whitespace)
    /\ \E i \in 0..Len(s) : \E j \in i..Len(s) :
          /\ SubSeq(s, i + 1, j) = d
          /\ \A k \in 1..i : s[k] \in Whitespace
          /\ \A k \in (j + 1)..Len(s) : s[k] \in Whitespace

\* tok is the link token of uid with a display text that is the trimmed name
IsLinkToken(tok, uid, name) ==
    /\ Len(tok) >= Len(uid) + 3
    /\ tok[1] = "<a href=\"tg://user?id="
    /\ SubSeq(tok, 2, Len(uid) + 1) = uid
    /\ tok[Len(uid) + 2] = "\">"
    /\ tok[Len(tok)] = "</a>"
    /\ IsTrimOf(SubSeq(tok, Len(uid) + 3, Len(tok) - 1), name)

\* C10: token form: the token of every record a notify-all iterated is "@" and the
\* username when the username is not empty, whatever the names; otherwise it is the
\* link to the record's userId with the text first name, blank, last name without its
\* leading and trailing whitespace.
C10_TokenForm ==
    \A t \in AllTasks :
        \A k \in DOMAIN tasks[t].members :
            LET uid == tasks[t].members[k].key
                u == tasks[t].members[k].val
                tok == tasks[t].mentions[k]
            IN  IF u.username # <<>>
                THEN tok = <<"@">> \o u.username
                ELSE IsLinkToken(tok, uid, u.first_name \o <<" ">> \o u.last_name)

\* C10 witness: one notify-all produced an "@" token for a record that also has a
\* first name, and a link token whose text lost whitespace at both ends.
C10_Witness ==
    \E t \in AllTasks :
        \E k1, k2 \in DOMAIN tasks[t].members :
            /\ tasks[t].members[k1].val.username # <<>>
            /\ tasks[t].members[k1].val.first_name # <<>>
            /\ tasks[t].mentions[k1][1] = "@"
            /\ tasks[t].members[k2].val = Payload(UserB)
            /\ tasks[t].mentions[k2] =
                  <<"<a href=\"tg://user?id=", "2", "\">", "B", " ", "S", "</a>">>

\* the record stored under (chat_id, user.id) of the mapping d is the payload of user
Holds(d, chat_id, user) ==
    /\ HasKey(DictGet(d, Str(chat_id), <<>>), Str(user.id))
    /\ DictGet(DictGet(d, Str(chat_id), <<>>), Str(user.id), <<>>) = Payload(user)

\* C11: best-effort durability: on every step that leaves the store file different
\* from the rows of the in-memory mapping (a save failed in it), a message handler that
\* ran in the step has returned and get of its conversation holds the sender's record
\* with the payload of the message, and a scan that ran its clear in the step goes on
\* to its adds with the conversation absent from the mapping.
C11_BestEffortDurability ==
    [][file' # Serialize(data') =>
          /\ \A t \in DOMAIN tasks' :
                (/\ t \notin DOMAIN tasks
                 /\ tasks'[t].kind = "message"
                 /\ tasks'[t].chat.type \in GroupTypes) =>
                    /\ tasks'[t].pc = "done"
                    /\ Holds(data', tasks'[t].chat.id, tasks'[t].user[1])
          /\ \A t \in DOMAIN tasks :
                (/\ t \in DOMAIN tasks'
                 /\ tasks[t].pc = "clear"
                 /\ tasks'[t] # tasks[t]) =>
                    /\ tasks'[t].pc = "add"
                    /\ ~HasKey(data', Str(tasks[t].chat.id))]_vars

\* C11 witness: the handler of a message returned, the mapping holds the sender's
\* record, and the store file holds only the beginning of the rows, in which load does
\* not find that record.
C11_Witness ==
    \E t \in DOMAIN tasks :
        /\ tasks[t].kind = "message" /\ tasks[t].pc = "done"
        /\ Holds(data, tasks[t].chat.id, tasks[t].user[1])
        /\ file # <<>> /\ Len(file) < Len(Serialize(data))
        /\ file = SubSeq(Serialize(data), 1, Len(file))
        /\ ~Holds(Load(file).data, tasks[t].chat.id, tasks[t].user[1])

\* C12: atomic overwrite: every step leaves the store file as it was or holding the
\* complete rows of the in-memory mapping (of the mapping before the step when the
\* step is a restart, whose save precedes the load).
C12_AtomicOverwrite ==
    [][file' = file \/ file' = Serialize(data') \/ file' = Serialize(data)]_vars

\* the statuses of a chat_member update on which on_chat_member adds
AddingStatuses == {"member", "administrator", "creator"}

\* invocation t is one whose handler is to add its user: a message no command matched,
\* or a status change to an adding status, in a group
IsAddOf(t) ==
    /\ tasks[t].chat.type \in GroupTypes
    /\ \/ tasks[t].kind = "message"
       \/ tasks[t].kind = "chat_member" /\ tasks[t].status \in AddingStatuses

\* invocation t is a scan that has run its clear
HasCleared(t) ==
    /\ tasks[t].kind = "scan"
    /\ IsAdmin(tasks[t].admins, Me)
    /\ tasks[t].pc \in {"add", "reply", "done"}

\* C13: per-conversation ordering: when a scan of a conversation has returned after
\* its clear and adds, every member whose message or join in that conversation was
\* delivered after the scan command (and before any later scan command that has
\* cleared) is tracked in the conversation.
C13_PerConversationOrder ==
    \A s, m \in DOMAIN tasks :
        (/\ s < m
         /\ HasCleared(s) /\ tasks[s].pc = "done"
         /\ IsAddOf(m) /\ tasks[m].chat = tasks[s].chat
         /\ \A s2 \in DOMAIN tasks :
               (s2 > m /\ tasks[s2].chat = tasks[s].chat) => ~HasCleared(s2)) =>
            HasKey(Get(Db, Str(tasks[m].chat.id)), Str(tasks[m].user[1].id))

\* C14: resync atomicity: while a scan is between its clear and the reply that
\* follows its last add, every step of the running process is a step of that scan: no
\* update is delivered to a handler and no other handler invocation moves, so none
\* reads or changes the conversation while it is empty or holds only some of the
\* administrators.
C14_ResyncAtomicity ==
    [][\A t \in DOMAIN tasks :
          (/\ tasks[t].kind = "scan"
           /\ tasks[t].pc = "add"
           /\ nRestarts' = nRestarts) =>
              /\ nEvents' = nEvents
              /\ Len(tasks') = Len(tasks)
              /\ \A s \in DOMAIN tasks : s # t => tasks'[s] = tasks[s]]_vars

\* C14 witness: a scan has cleared its conversation and has not added yet, while a
\* notify-all of the same conversation is suspended in a reply.
C14_Witness ==
    \E t, s \in DOMAIN tasks :
        /\ tasks[t].kind = "scan" /\ tasks[t].pc = "add" /\ tasks[t].idx = 1
        /\ ~HasKey(data, Str(tasks[t].chat.id))
        /\ tasks[s].kind = "all" /\ tasks[s].pc = "reply"
        /\ tasks[s].chat = tasks[t].chat

\* C15: single stable pass: every message a notify-all has sent is the header with
\* its position and the number of chunks of the token list materialised at the read,
\* followed by the tokens of that list at the positions of the chunk, joined by
\* blanks; the list has one token per member the read found. What the registry holds
\* when a chunk is sent plays no part.
C15_SingleStablePass ==
    \A t \in AllTasks :
        LET mentions == tasks[t].mentions
            n == Len(mentions)
        IN  /\ n = Len(tasks[t].members)
            /\ \A i \in DOMAIN tasks[t].sent :
                  tasks[t].sent[i] =
                      Header(i, CeilChunks(n))
                          \o Join(SubSeq(mentions, (i - 1) * ChunkSize + 1,
                                         Min(i * ChunkSize, n)), <<" ">>)

\* C15 witness: a notify-all over the 17 scanned members sent its second chunk, the
\* tokens 16 and 17 of its list, when a scan handled in between had left the
\* conversation with two members, the member of token 16 not among them.
C15_Witness ==
    \E t \in AllTasks :
        /\ Len(tasks[t].members) = ChunkSize + 2
        /\ Len(tasks[t].sent) = 2
        /\ Len(tasks[t].prev) = 2
        /\ tasks[t].members[ChunkSize + 1].key \notin Keys(tasks[t].prev)
        /\ tasks[t].sent[2] =
              Header(2, 2) \o tasks[t].mentions[ChunkSize + 1] \o <<" ">>
                  \o tasks[t].mentions[ChunkSize + 2]

\* the (conversation, userId) pairs the mapping d tracks
TrackedIds(d) == {<<tr[1], tr[2]>> : tr \in Triples(d)}

\* C16: additive status changes: the step that handles a membership-status change
\* leaves get of the conversation holding the subject's record with the payload of the
\* update when the new status is member, administrator or creator, and changes
\* neither the in-memory mapping nor the store file for any other status; and every
\* step that is neither the clear of a scan nor a restart keeps every tracked
\* (conversation, userId) tracked.
C16_AdditiveStatusChanges ==
    [][/\ \A t \in DOMAIN tasks' :
             (t \notin DOMAIN tasks /\ tasks'[t].kind = "chat_member") =>
                 IF tasks'[t].status \in AddingStatuses
                 THEN Holds(data', tasks'[t].chat.id, tasks'[t].user[1])
                 ELSE data' = data /\ file' = file
       /\ (/\ nRestarts' = nRestarts
           /\ ~\E t \in DOMAIN tasks : t \in DOMAIN tasks' /\ tasks[t].pc = "clear"
                                          /\ tasks'[t].pc = "add") =>
              TrackedIds(data) \subseteq TrackedIds(data')]_vars

\* C16 witness: a user joined a group, the same user then left it, and the user's
\* record is still tracked there.
C16_Witness ==
    \E t1, t2 \in DOMAIN tasks :
        /\ t1 < t2
        /\ tasks[t1].kind = "chat_member" /\ tasks[t1].status = "member"
        /\ tasks[t2].kind = "chat_member" /\ tasks[t2].status \in {"left", "kicked"}
        /\ tasks[t2].chat = tasks[t1].chat
        /\ tasks[t2].user[1].id = tasks[t1].user[1].id
        /\ Holds(data, tasks[t1].chat.id, tasks[t1].user[1])

\* C17: automatic collection: the step in which the handling of a message received in
\* a group completes (the handler returns), whether the message is a command or not,
\* leaves the sender tracked in the conversation.
C17_AutomaticCollection ==
    [][\A t \in DOMAIN tasks' :
          (/\ tasks'[t].kind \in {"message", "start", "scan", "all"}
           /\ tasks'[t].chat.type \in GroupTypes
           /\ tasks'[t].pc = "done"
           /\ t \in DOMAIN tasks => tasks[t].pc # "done") =>
              HasKey(DictGet(data', Str(tasks'[t].chat.id), <<>>),
                     Str(tasks'[t].user[1].id))]_vars

\* the positions of the field separators of a row, in order
Bars(row) == SelectSeq([i \in 1..Len(row) |-> i], LAMBDA i : row[i] = "|")

\* a row of the store splits into exactly five fields
WellFormed(line) == Len(Bars(Strip(line))) = 4

\* field k (1 to 5) of a well-formed row
RowField(line, k) ==
    LET row == Strip(line)
        bars == <<0>> \o Bars(row) \o <<Len(row) + 1>>
    IN  SubSeq(row, bars[k] + 1, bars[k + 1] - 1)

\* C18: load with a malformed row: after every load (at start and at every restart;
\* the load returns, the process runs) the mapping tracks exactly the
\* (conversation, userId) pairs of the rows of the store file that precede its first
\* row not made of five fields, each with the fields of the last of those rows that
\* names the pair, and no conversation besides theirs.
C18_LoadMalformedRow ==
    LET rows == Lines(ReadText(file))
        bad == {j \in DOMAIN rows : ~WellFormed(rows[j])}
        m == IF bad = {} THEN Len(rows) + 1
             ELSE CHOOSE j \in bad : \A j2 \in bad : j <= j2
        good == 1..(m - 1)
        last(j) == \A j2 \in good :
                      (/\ RowField(rows[j2], 1) = RowField(rows[j], 1)
                       /\ RowField(rows[j2], 2) = RowField(rows[j], 2)) => j2 <= j
    IN  /\ TrackedIds(data) = {<<RowField(rows[j], 1), RowField(rows[j], 2)>> : j \in good}
        /\ Keys(data) = {RowField(rows[j], 1) : j \in good}
        /\ \A j \in good :
              last(j) =>
                  DictGet(DictGet(data, RowField(rows[j], 1), <<>>),
                          RowField(rows[j], 2), <<>>)
                      = [username |-> RowField(rows[j], 3),
                         first_name |-> RowField(rows[j], 4),
                         last_name |-> RowField(rows[j], 5)]

\* C18 witness: the process was started again on a file of two rows of user 1 in
\* conversation -1, a blank line and a row of user 2 in conversation -20; the mapping
\* holds user 1 with the fields of the second row and does not track -20.
C18_Witness ==
    /\ nRestarts = 1
    /\ file = <<"-", "1", "|", "1", "|", "a", "l", "|", "A", "|", "\n",
                "-", "1", "|", "1", "|", "|", "A", "|", "L", "\n",
                "\n",
                "-", "2", "0", "|", "2", "|", "|", " ", "B", "|", "S", " ", "\n">>
    /\ Holds(data, GroupChat.id, UserA2)
    /\ ~HasKey(data, Str(SuperChat.id))

\* the rows of a store file
FileRows(f) == {Lines(ReadText(f))[j] : j \in DOMAIN Lines(ReadText(f))}

\* the (conversation, userId) pairs that have a row in a store file written by save
RowIds(f) == {<<RowField(row, 1), RowField(row, 2)>> : row \in FileRows(f)}

\* C19: record retention: every step, restarts included, keeps in the store file a
\* row for every (conversation, userId) that has one, unless the step is the clear of
\* that conversation by a scan or an add under that (conversation, userId).
C19_RecordRetention ==
    [][\A id \in RowIds(file) :
          \/ id \in RowIds(file')
          \/ \E t \in DOMAIN tasks :
                /\ t \in DOMAIN tasks'
                /\ tasks[t].pc = "clear" /\ tasks'[t].pc = "add"
                /\ Str(tasks[t].chat.id) = id[1]
          \/ \E e \in lastAdd' \ lastAdd : e.chat = id[1] /\ e.uid = id[2]]_vars

\* C20: no empty conversation entries: in every state every conversation key of the
\* in-memory mapping maps to at least one member record, and so has at least one row
\* among the rows save writes for the mapping.
C20_NoEmptyConversations ==
    /\ \A i \in DOMAIN data : data[i].val # <<>>
    /\ Keys(data) = {id[1] : id \in RowIds(Serialize(data))}

\* C20 witness: a scan has just cleared a conversation that had tracked members,
\* after a restart loaded the registry from the store; the conversation is absent.
C20_Witness ==
    \E t \in DOMAIN tasks :
        /\ tasks[t].kind = "scan" /\ tasks[t].pc = "add" /\ tasks[t].idx = 1
        /\ tasks[t].prev # <<>>
        /\ ~HasKey(data, Str(tasks[t].chat.id))
        /\ nRestarts = 1

====
